---------------------------- MODULE Spec2Model ----------------------------
(***************************************************************************)
(* cryptboot-rs: the mount / umount / reset lifecycle of the encrypted     *)
(* boot stack (src/boot.rs), the primitives it drives (src/command.rs)     *)
(* and the commands of src/main.rs that use it.                            *)
(*                                                                         *)
(* A path is the sequence of its components (<<"boot","efi">> is           *)
(* /boot/efi), a command-line argument is a sequence of strings too: a     *)
(* path, or an option written character by character                       *)
(* (<<"-","q","R">> is -qR), or a single word (<<"open">>).                *)
(*                                                                         *)
(* The operating system is the mapper table and the mount table.  Every    *)
(* external command gets a fault drawn by the environment: "none" (the     *)
(* program runs and succeeds iff the tables allow it), "exit" (it runs     *)
(* and exits non-zero: busy target, rejected key), "spawn" (it cannot be   *)
(* started, Command::status returns Err).                                  *)
(***************************************************************************)
EXTENDS Naturals, Sequences, FiniteSets, TLC

BOOT_MAPPER_NAME == "cryptboot-boot"

Fault == {"none", "exit", "spawn"}

---------------------------------------------------------------------------
(* Paths and devices (src/main.rs)                                         *)

IsPrefix(p, q) == Len(p) <= Len(q) /\ SubSeq(q, 1, Len(p)) = p

DevicePath(p) == [kind |-> "Path", v |-> p]
DevicePartUuid(u) == [kind |-> "PartUuid", v |-> u]
DeviceMapper(s) == [kind |-> "Mapper", v |-> s]

full_path(dev) ==
    CASE dev.kind = "Path" -> dev.v
      [] dev.kind = "PartUuid" -> <<"dev", "disk", "by-partuuid", dev.v>>
      [] dev.kind = "Mapper" -> <<"dev", "mapper", dev.v>>

\* fs::metadata of a path at the time of the call: Err when the path cannot
\* be stat-ed (env.denied) or does not exist, otherwise its file type.  A
\* block device is one the environment names (env.blk) or the node of an
\* open mapper; env.dirs are the directories.
metadata(p, os, env) ==
    IF p \in env.denied THEN [ok |-> FALSE, v |-> "PermissionDenied"]
    ELSE IF p \in env.blk \/ \E n \in os.mappers : p = <<"dev", "mapper", n>>
    THEN [ok |-> TRUE, v |-> "block"]
    ELSE IF p \in env.dirs THEN [ok |-> TRUE, v |-> "dir"]
    ELSE [ok |-> FALSE, v |-> "NotFound"]

\* is_valid that takes anything that can be stat-ed for a device
is_valid_any_file(dev, os, env) == metadata(full_path(dev), os, env).ok

\* `match fs::metadata(..) { Ok(m) => m.file_type().is_block_device(),
\* _ => false }`
is_valid(dev, os, env) ==
    LET md == metadata(full_path(dev), os, env)
    IN IF md.ok THEN md.v = "block" ELSE FALSE

\* Path::is_dir: the path can be stat-ed and is a directory
is_dir(p, env) == p \in env.dirs /\ p \notin env.denied /\ p \notin env.blk

---------------------------------------------------------------------------
(* The configurations the program is run with                              *)

\* /boot with the EFI partition beneath it (the defaults of ConfigureOption)
ConfigNested ==
    [device |-> <<"dev", "sda2">>, mountpoint |-> <<"boot">>,
     efi |-> [device |-> <<"dev", "sda1">>, mountpoint |-> <<"boot", "efi">>]]

\* the EFI partition mounted outside the boot mountpoint
ConfigApart ==
    [device |-> <<"dev", "sda2">>, mountpoint |-> <<"boot">>,
     efi |-> [device |-> <<"dev", "sda1">>, mountpoint |-> <<"efi">>]]

Configs == {ConfigNested, ConfigApart}

---------------------------------------------------------------------------
(* The external programs, run by command(..).status() (src/command.rs)     *)

\* the option letters of an argument list: -qR gives {"q", "R"}
Opts(args) ==
    UNION {{a[i] : i \in 2..Len(a)} :
           a \in {args[k] : k \in {j \in 1..Len(args) : args[j][1] = "-"}}}

MountedAt(os, mp) == \E e \in os.mounts : e.mp = mp
MountedBelow(os, mp) == \E e \in os.mounts : e.mp # mp /\ IsPrefix(mp, e.mp)

\* what the tables become when the program runs to a zero exit;
\* the tables unchanged and ok = FALSE when it exits non-zero
run_cryptsetup(os, args) ==
    IF args[1] = <<"open">>
    THEN LET name == args[3][1]
         IN IF name \in os.mappers
            THEN [os |-> os, ok |-> FALSE]
            ELSE [os |-> [os EXCEPT !.mappers = @ \cup {name}], ok |-> TRUE]
    ELSE LET name == args[2][1]
             busy == \E e \in os.mounts : e.dev = <<"dev", "mapper", name>>
         IN IF name \notin os.mappers \/ busy
            THEN [os |-> os, ok |-> FALSE]
            ELSE [os |-> [os EXCEPT !.mappers = @ \ {name}], ok |-> TRUE]

run_mount(os, args) ==
    LET e == [dev |-> args[1], mp |-> args[2]]
    IN IF e \in os.mounts
       THEN [os |-> os, ok |-> FALSE]
       ELSE [os |-> [os EXCEPT !.mounts = @ \cup {e}], ok |-> TRUE]

run_umount(os, args) ==
    LET mp == args[Len(args)]
        rec == "R" \in Opts(SubSeq(args, 1, Len(args) - 1))
    IN IF ~MountedAt(os, mp) \/ (MountedBelow(os, mp) /\ ~rec)
       THEN [os |-> os, ok |-> FALSE]
       ELSE [os |-> [os EXCEPT !.mounts = {e \in @ : ~IsPrefix(mp, e.mp)}],
             ok |-> TRUE]

\* Command::status(): Err when the program cannot be started, otherwise its
\* exit status
Exit(r) == [os |-> r.os, st |-> IF r.ok THEN "success" ELSE "failure"]

status(os, prog, args, fault) ==
    IF fault = "spawn" THEN [os |-> os, st |-> "nostart"]
    ELSE IF fault = "exit" THEN [os |-> os, st |-> "failure"]
    ELSE Exit(CASE prog = "cryptsetup" -> run_cryptsetup(os, args)
                [] prog = "mount" -> run_mount(os, args)
                [] prog = "umount" -> run_umount(os, args)
                [] OTHER -> [os |-> os, ok |-> TRUE])

\* the record kept of one command issued
Issued(prog, args, silent, st) ==
    [prog |-> prog, args |-> args, silent |-> silent, st |-> st]

\* the value of `status()?` followed by `if !status.success()`
Outcome(st, err) ==
    IF st = "nostart" THEN "Err(io)" ELSE IF st = "failure" THEN err ELSE "Ok"

---------------------------------------------------------------------------
(* The primitives of src/command.rs.  Each returns the tables after it,    *)
(* the commands it issued and its Result.                                  *)

Ret(os, cmds, res) == [os |-> os, cmds |-> cmds, res |-> res]

\* `let status = command(prog).args(args).status()?; if !status.success()
\* { return Err(err) } Ok(())`
Ran(prog, args, silent, err, r) ==
    Ret(r.os, <<Issued(prog, args, silent, r.st)>>, Outcome(r.st, err))
Run(prog, args, silent, err, os, fault) ==
    Ran(prog, args, silent, err, status(os, prog, args, fault))

\* cryptsetup_open without the validity check
cryptsetup_open_unchecked(dev, name, os, env, fault) ==
    Run("cryptsetup", <<(<<"open">>), full_path(dev), <<name>>>>, FALSE,
        "Err(cryptsetup open failed)", os, fault)

cryptsetup_open(dev, name, os, env, fault) ==
    IF ~is_valid(dev, os, env)
    THEN Ret(os, <<>>, "Err(cryptsetup open error invalid device)")
    ELSE Run("cryptsetup", <<(<<"open">>), full_path(dev), <<name>>>>, FALSE,
             "Err(cryptsetup open failed)", os, fault)

cryptsetup_close(name, silent, os, fault) ==
    Run("cryptsetup", <<(<<"close">>), <<name>>>>, silent,
        "Err(cryptsetup close failed)", os, fault)

command_mount(dev, mountpoint, os, env, fault) ==
    IF ~is_valid(dev, os, env)
    THEN Ret(os, <<>>, "Err(mount error invalid device)")
    ELSE IF ~is_dir(mountpoint, env)
    THEN Ret(os, <<>>, "Err(mount invalid mountpoint)")
    ELSE Run("mount", <<full_path(dev), mountpoint>>, FALSE,
             "Err(failed to mount)", os, fault)

command_umount(mountpoint, args, os, fault) ==
    Run("umount", args \o <<mountpoint>>, FALSE, "Err(failed to umount)",
        os, fault)

sbctl(cmd, os, fault) ==
    Run("sbctl", <<(<<cmd>>)>>, FALSE, "Err(sbctl failed)", os, fault)

---------------------------------------------------------------------------
(* EncryptedBoot and Efi (src/boot.rs)                                     *)

Efi_mount(efi, os, env, fault) ==
    command_mount(DevicePath(efi.device), efi.mountpoint, os, env, fault)

Efi_umount(efi, args, os, fault) ==
    command_umount(efi.mountpoint, args, os, fault)

\* from_config with automatic release already on, as Default::default has it
from_config_armed(config) ==
    [config |-> config, name |-> BOOT_MAPPER_NAME, umount_on_drop |-> TRUE]

\* from_config that leaves the name empty, as Default::default has it
from_config_unnamed(config) ==
    [config |-> config, name |-> "", umount_on_drop |-> FALSE]

from_config(config) ==
    [config |-> config, name |-> BOOT_MAPPER_NAME, umount_on_drop |-> FALSE]

\* a builder that forgets to set the flag
umount_on_drop_unset(self) == self

umount_on_drop(self) == [self EXCEPT !.umount_on_drop = TRUE]

\* `a?; b`: b runs on the tables a left, only when a returned Ok
Then(a, b) == Ret(b.os, a.cmds \o b.cmds, b.res)

\* what a `&mut self` method leaves: its Ret and the manager after it
RetSelf(r, self) ==
    [os |-> r.os, cmds |-> r.cmds, res |-> r.res, self |-> self]

\* mount that rolls the unlock back when the boot mount fails
EncryptedBoot_mount_rollback(self, os, env) ==
    LET r1 == cryptsetup_open(DevicePath(self.config.device), BOOT_MAPPER_NAME,
                              os, env, env.faults[1])
        r2 == command_mount(DeviceMapper(self.name), self.config.mountpoint,
                            r1.os, env, env.faults[2])
        undo == cryptsetup_close(BOOT_MAPPER_NAME, TRUE, r2.os, "none")
        r3 == Efi_mount(self.config.efi, r2.os, env, env.faults[3])
    IN RetSelf(IF r1.res # "Ok" THEN r1
               ELSE IF r2.res # "Ok"
               THEN Ret(undo.os, r1.cmds \o r2.cmds \o undo.cmds, r2.res)
               ELSE Then(Then(r1, r2), r3),
               self)

\* mount that discards the result of the EFI mount (`let _ =`)
EncryptedBoot_mount_efi_optional(self, os, env) ==
    LET r1 == cryptsetup_open(DevicePath(self.config.device), BOOT_MAPPER_NAME,
                              os, env, env.faults[1])
        r2 == command_mount(DeviceMapper(self.name), self.config.mountpoint,
                            r1.os, env, env.faults[2])
        r3 == Efi_mount(self.config.efi, r2.os, env, env.faults[3])
    IN RetSelf(IF r1.res # "Ok" THEN r1
               ELSE IF r2.res # "Ok" THEN Then(r1, r2)
               ELSE Ret(r3.os, r1.cmds \o r2.cmds \o r3.cmds, "Ok"),
               self)

\* mount that turns the automatic release on once it has succeeded
EncryptedBoot_mount_arming(self, os, env) ==
    LET r1 == cryptsetup_open(DevicePath(self.config.device), BOOT_MAPPER_NAME,
                              os, env, env.faults[1])
        r2 == command_mount(DeviceMapper(self.name), self.config.mountpoint,
                            r1.os, env, env.faults[2])
        r3 == Efi_mount(self.config.efi, r2.os, env, env.faults[3])
        r == IF r1.res # "Ok" THEN r1
             ELSE IF r2.res # "Ok" THEN Then(r1, r2)
             ELSE Then(Then(r1, r2), r3)
    IN RetSelf(r, IF r.res = "Ok" THEN [self EXCEPT !.umount_on_drop = TRUE]
                  ELSE self)

\* `cryptsetup_open(..)?; command::mount(..)?; self.config.efi.mount()?;
\* Ok(())`: each `?` returns the error of its step; no field is assigned
EncryptedBoot_mount(self, os, env) ==
    LET r1 == cryptsetup_open(DevicePath(self.config.device), BOOT_MAPPER_NAME,
                              os, env, env.faults[1])
        r2 == command_mount(DeviceMapper(self.name), self.config.mountpoint,
                            r1.os, env, env.faults[2])
        r3 == Efi_mount(self.config.efi, r2.os, env, env.faults[3])
    IN RetSelf(IF r1.res # "Ok" THEN r1
               ELSE IF r2.res # "Ok" THEN Then(r1, r2)
               ELSE Then(Then(r1, r2), r3),
               self)

\* umount that tries the boot unmount a second time when it failed
EncryptedBoot_umount_retry(self, os, env) ==
    LET r1 == Efi_umount(self.config.efi, <<>>, os, env.faults[1])
        r2 == command_umount(self.config.mountpoint, <<(<<"-", "R">>)>>, r1.os,
                             env.faults[2])
        again == command_umount(self.config.mountpoint, <<(<<"-", "R">>)>>,
                                r2.os, "none")
        r2b == IF r2.res = "Ok" THEN r2
               ELSE Ret(again.os, r2.cmds \o again.cmds, again.res)
    IN IF r2b.res # "Ok" THEN Then(r1, r2b)
       ELSE Then(Then(r1, r2b),
                 cryptsetup_close(BOOT_MAPPER_NAME, FALSE, r2b.os,
                                  env.faults[3]))

\* umount that discards the result of the boot unmount too
EncryptedBoot_umount_no_short_circuit(self, os, env) ==
    LET r1 == Efi_umount(self.config.efi, <<>>, os, env.faults[1])
        r2 == command_umount(self.config.mountpoint, <<(<<"-", "R">>)>>, r1.os,
                             env.faults[2])
    IN Then(Then(r1, r2),
            cryptsetup_close(BOOT_MAPPER_NAME, FALSE, r2.os, env.faults[3]))

\* umount that propagates the failure of the EFI unmount
EncryptedBoot_umount_efi_fatal(self, os, env) ==
    LET r1 == Efi_umount(self.config.efi, <<>>, os, env.faults[1])
        r2 == command_umount(self.config.mountpoint, <<(<<"-", "R">>)>>, r1.os,
                             env.faults[2])
    IN IF r1.res # "Ok" THEN r1
       ELSE IF r2.res # "Ok" THEN Then(r1, r2)
       ELSE Then(Then(r1, r2),
                 cryptsetup_close(BOOT_MAPPER_NAME, FALSE, r2.os, env.faults[3]))

\* umount that leaves the mapper open
EncryptedBoot_umount_no_close(self, os, env) ==
    LET r1 == Efi_umount(self.config.efi, <<>>, os, env.faults[1])
    IN Then(r1, command_umount(self.config.mountpoint, <<(<<"-", "R">>)>>,
                               r1.os, env.faults[2]))

EncryptedBoot_umount(self, os, env) ==
    LET r1 == Efi_umount(self.config.efi, <<>>, os, env.faults[1])
        r2 == command_umount(self.config.mountpoint, <<(<<"-", "R">>)>>, r1.os,
                             env.faults[2])
    IN IF r2.res # "Ok" THEN Then(r1, r2)
       ELSE Then(Then(r1, r2),
                 cryptsetup_close(BOOT_MAPPER_NAME, FALSE, r2.os, env.faults[3]))

\* reset that propagates its failures with `?`
EncryptedBoot_reset_propagating(self, os, env) ==
    LET r1 == Efi_umount(self.config.efi, <<(<<"-", "q", "R">>)>>, os,
                         env.faults[1])
        r2 == command_umount(self.config.mountpoint, <<(<<"-", "q", "R">>)>>,
                             r1.os, env.faults[2])
    IN IF r1.res # "Ok" THEN r1
       ELSE IF r2.res # "Ok" THEN Then(r1, r2)
       ELSE Then(Then(r1, r2),
                 cryptsetup_close(BOOT_MAPPER_NAME, TRUE, r2.os, env.faults[3]))

\* reset that releases the mapper before it unmounts
EncryptedBoot_reset_close_first(self, os, env) ==
    LET r3 == cryptsetup_close(BOOT_MAPPER_NAME, TRUE, os, env.faults[3])
        r1 == Efi_umount(self.config.efi, <<(<<"-", "q", "R">>)>>, r3.os,
                         env.faults[1])
        r2 == command_umount(self.config.mountpoint, <<(<<"-", "q", "R">>)>>,
                             r1.os, env.faults[2])
    IN Ret(r2.os, r3.cmds \o r1.cmds \o r2.cmds, "()")

\* reset with the flags and the verbosity of umount
EncryptedBoot_reset_plain(self, os, env) ==
    LET r1 == Efi_umount(self.config.efi, <<>>, os, env.faults[1])
        r2 == command_umount(self.config.mountpoint, <<(<<"-", "R">>)>>,
                             r1.os, env.faults[2])
        r3 == cryptsetup_close(BOOT_MAPPER_NAME, FALSE, r2.os, env.faults[3])
    IN Ret(r3.os, r1.cmds \o r2.cmds \o r3.cmds, "()")

\* every Result is discarded (`let _ =`): reset has no value to return
EncryptedBoot_reset(self, os, env) ==
    LET r1 == Efi_umount(self.config.efi, <<(<<"-", "q", "R">>)>>, os,
                         env.faults[1])
        r2 == command_umount(self.config.mountpoint, <<(<<"-", "q", "R">>)>>,
                             r1.os, env.faults[2])
        r3 == cryptsetup_close(BOOT_MAPPER_NAME, TRUE, r2.os, env.faults[3])
    IN Ret(r3.os, r1.cmds \o r2.cmds \o r3.cmds, "()")

\* `.unwrap()` of the Result of the umount a drop called: () or a panic
unwrap(r) ==
    [os |-> r.os, called |-> TRUE, cmds |-> r.cmds, umount |-> r.res,
     res |-> IF r.res = "Ok" THEN "()" ELSE "panic"]

\* a drop that discards the result of umount (`let _ = self.umount()`)
EncryptedBoot_drop_ignoring(self, os, env) ==
    IF self.umount_on_drop
    THEN [unwrap(EncryptedBoot_umount(self, os, env)) EXCEPT !.res = "()"]
    ELSE [os |-> os, called |-> FALSE, cmds |-> <<>>, umount |-> "none",
          res |-> "()"]

\* Drop::drop: `self.umount().unwrap()` panics on Err
EncryptedBoot_drop(self, os, env) ==
    IF self.umount_on_drop
    THEN unwrap(EncryptedBoot_umount(self, os, env))
    ELSE [os |-> os, called |-> FALSE, cmds |-> <<>>, umount |-> "none",
          res |-> "()"]

---------------------------------------------------------------------------
(* Grub (src/grub.rs) and the work the commands of src/main.rs do between  *)
(* Mount and Unmount.  None of it touches the mapper or mount tables.      *)

Grub_mkconfig(cfg, os, w) ==
    IF Append(cfg.mountpoint, "grub") \notin w.dirs /\ ~w.create_dir
    THEN Ret(os, <<>>, "Err(io)")
    ELSE Run("grub-mkconfig",
             <<(<<"-", "o">>), cfg.mountpoint \o <<"grub", "grub.cfg">>>>,
             FALSE, "Err(grub-mkconfig failed)", os, w.faults[1])

Grub_install(cfg, os, w) ==
    IF cfg.efi.mountpoint \notin w.dirs
    THEN Ret(os, <<>>, "Err(esp directory not found)")
    ELSE Run("grub-install",
             <<(<<"--target=">>), <<"--efi-directory=">> \o cfg.efi.mountpoint,
               <<"--bootloader-id=">>, <<"--modules=">>,
               <<"--disable-shim-lock">>>>,
             FALSE, "Err(grub-install failed)", os, w.faults[2])

\* grub_install, lines 98-107: mkconfig?, install?, sbctl("sign-all")?
grub_install_work(cfg, o, os, w) ==
    LET r1 == Grub_mkconfig(cfg, os, w)
    IN IF r1.res # "Ok" THEN r1
       ELSE LET r2 == Grub_install(cfg, r1.os, w)
            IN IF r2.res # "Ok" \/ o.no_sign THEN Then(r1, r2)
               ELSE Then(Then(r1, r2), sbctl("sign-all", r2.os, w.faults[3]))

\* run, lines 116-130: the command line when there is one, then sign-all
run_work(o, os, w) ==
    LET r1 == IF o.command_line = <<>> THEN Ret(os, <<>>, "Ok")
              ELSE Run(Head(o.command_line)[1], Tail(o.command_line), FALSE,
                       "Err(failed to run)", os, w.faults[1])
    IN IF r1.res # "Ok" \/ ~o.sign_all THEN r1
       ELSE Then(r1, sbctl("sign-all", r1.os, w.faults[2]))

\* move_sbctl, lines 78-84: "early" is the return of line 79
move_sbctl_work(os, w) ==
    IF w.same THEN Ret(os, <<>>, "early")
    ELSE IF ~w.move_dir \/ ~w.symlink THEN Ret(os, <<>>, "Err(io)")
    ELSE Ret(os, <<>>, "Ok")

---------------------------------------------------------------------------
(* The program: one invocation after another (src/main.rs, main)           *)

VARIABLES
    os,       \* the mapper table and the mount table
    config,   \* the boot configuration read from the configuration file
    command,  \* the command of the current invocation
    pc,       \* where the current invocation is
    m,        \* the managers alive in the current invocation (none or one)
    calls,    \* the calls of this invocation, with the commands each issued
    ret,      \* the value the command's function is returning
    result    \* what main ended with

vars == <<os, config, command, pc, m, calls, ret, result>>

Commands == {"Mount", "Umount", "GrubInstall", "MoveSbctl", "Run"}
AutoRelease == {"GrubInstall", "MoveSbctl", "Run"}

\* the states an earlier session can have left: each a prefix of Mount
Stack(cfg, n) ==
    [mappers |-> IF n >= 1 THEN {BOOT_MAPPER_NAME} ELSE {},
     mounts |->
        (IF n >= 2
         THEN {[dev |-> <<"dev", "mapper", BOOT_MAPPER_NAME>>,
                mp |-> cfg.mountpoint]}
         ELSE {})
        \cup
        (IF n >= 3
         THEN {[dev |-> cfg.efi.device, mp |-> cfg.efi.mountpoint]}
         ELSE {})]

Unmounted == [mappers |-> {}, mounts |-> {}]

\* what the environment decides during one call
TeardownEnv == [blk : {{}}, dirs : {{}}, denied : {{}}, faults : [1..3 -> Fault]]
\* One call of mount: either every device and directory is there and the
\* three commands fare as they will, or one device or directory is missing
\* or cannot be stat-ed and the commands that do run work.  (A check that
\* fails hides what comes after it, and a command that fails hides the
\* checks after it: the other combinations give these outcomes again.)
NoFault == [i \in 1..3 |-> "none"]
MountEnv(cfg) ==
    LET blk == {cfg.device, cfg.efi.device}
        dirs == {cfg.mountpoint, cfg.efi.mountpoint}
    IN {[blk |-> blk, dirs |-> dirs, denied |-> {}, faults |-> f] :
            f \in [1..3 -> Fault]}
       \cup {[blk |-> blk \ {p}, dirs |-> dirs \ {p}, denied |-> {},
              faults |-> NoFault] : p \in blk \cup dirs}
       \cup {[blk |-> blk, dirs |-> dirs, denied |-> {p},
              faults |-> NoFault] : p \in {cfg.device, cfg.mountpoint}}
GrubEnv(cfg) ==
    [dirs : SUBSET {Append(cfg.mountpoint, "grub"), cfg.efi.mountpoint},
     create_dir : BOOLEAN, faults : [1..3 -> Fault]]
RunEnv == [faults : [1..2 -> Fault]]
RunOptions ==
    [sign_all : BOOLEAN, command_line : {<<>>, <<(<<"pacman">>), <<"-Syu">>>>}]
GrubInstallOptions == [no_sign : BOOLEAN]
FsEnv == [same : BOOLEAN, move_dir : BOOLEAN, symlink : BOOLEAN]

Call(op, via, pre, r) ==
    [op |-> op, via |-> via, pre |-> pre, post |-> r.os, cmds |-> r.cmds,
     res |-> r.res]

Init ==
    /\ config \in Configs
    /\ os \in {Stack(config, n) : n \in 0..3}
    /\ command = "none"
    /\ pc = "main"
    /\ m = <<>>
    /\ calls = <<>>
    /\ ret = "none"
    /\ result = "none"

\* main, lines 240-249: dispatch on the command.  move_sbctl starts with
\* canonicalize()?, which fails before anything is mounted.
MainDispatch ==
    /\ pc = "main"
    /\ m' = <<>>
    /\ calls' = <<>>
    /\ ret' = "none"
    /\ \E c \in Commands :
          /\ command' = c
          /\ \/ /\ c = "Umount"
                /\ pc' = "Cryptboot::umount"
                /\ result' = "none"
             \/ /\ c # "Umount"
                /\ pc' = "Cryptboot::mount"
                /\ result' = "none"
             \/ /\ c = "MoveSbctl"
                /\ pc' = "main"
                /\ result' = "Err(io)"
    /\ UNCHANGED <<os, config>>

\* a method of the manager has returned r: the tables are as it left them
\* and the call is on record
Returned(op, r) ==
    /\ os' = r.os
    /\ calls' = Append(calls, Call(op, "call", os, r))

\* Cryptboot::mount that gives up when a command of reset fails
CryptbootMountReset_checked ==
    /\ pc = "Cryptboot::mount"
    /\ m' = <<from_config(config)>>
    /\ \E env \in TeardownEnv :
          LET r == EncryptedBoot_reset(from_config(config), os, env)
              failed == \E i \in 1..Len(r.cmds) : r.cmds[i].st # "success"
          IN /\ Returned("reset", r)
             /\ pc' = IF failed THEN "scope exit" ELSE "m.mount"
             /\ ret' = IF failed THEN "Err(io)" ELSE ret
    /\ UNCHANGED <<config, command, result>>

\* Cryptboot::mount, lines 65-66: from_config, then reset
CryptbootMountReset ==
    /\ pc = "Cryptboot::mount"
    /\ m' = <<from_config(config)>>
    /\ \E env \in TeardownEnv :
          Returned("reset", EncryptedBoot_reset(from_config(config), os, env))
    /\ pc' = "m.mount"
    /\ UNCHANGED <<config, command, ret, result>>

\* Cryptboot::mount, lines 67-68: `m.mount()?; Ok(m)`.  On Err the manager
\* goes out of scope in Cryptboot::mount; on Ok the Mount command drops it
\* in main (line 243) and the other commands go on to umount_on_drop().
MountReturned(r) ==
    /\ Returned("mount", r)
    /\ m' = <<r.self>>
    /\ IF r.res # "Ok"
       THEN ret' = r.res /\ pc' = "scope exit"
       ELSE IF command = "Mount"
       THEN ret' = "Ok" /\ pc' = "scope exit"
       ELSE ret' = ret /\ pc' = "umount_on_drop"

CryptbootMountMount ==
    /\ pc = "m.mount"
    /\ \E env \in MountEnv(config) :
          MountReturned(EncryptedBoot_mount(m[1], os, env))
    /\ UNCHANGED <<config, command, result>>

\* `self.mount()?.umount_on_drop()` in grub_install, run and move_sbctl
ArmUmountOnDrop ==
    /\ pc = "umount_on_drop"
    /\ m' = <<umount_on_drop(m[1])>>
    /\ pc' = "work"
    /\ UNCHANGED <<os, config, command, calls, ret, result>>

\* after the work: `drop(m); Ok(())` when every step returned Ok, otherwise
\* the function returns early and the manager goes out of scope
AfterWork(r) ==
    /\ os' = r.os
    /\ calls' = Append(calls, Call("work", "call", os, r))
    /\ IF r.res = "Ok"
       THEN ret' = ret /\ pc' = "drop(m)"
       ELSE /\ ret' = IF r.res = "early" THEN "Ok" ELSE r.res
            /\ pc' = "scope exit"
    /\ UNCHANGED <<config, command, m, result>>

GrubInstallWork ==
    /\ pc = "work" /\ command = "GrubInstall"
    /\ \E o \in GrubInstallOptions, w \in GrubEnv(config) :
          AfterWork(grub_install_work(config, o, os, w))

RunWork ==
    /\ pc = "work" /\ command = "Run"
    /\ \E o \in RunOptions, w \in RunEnv :
          AfterWork(run_work(o, os, w))

MoveSbctlWork ==
    /\ pc = "work" /\ command = "MoveSbctl"
    /\ \E w \in FsEnv : AfterWork(move_sbctl_work(os, w))

\* the environment is consulted only by a drop that unmounts
DropEnv(self) ==
    IF self.umount_on_drop THEN TeardownEnv
    ELSE {[blk |-> {}, dirs |-> {}, denied |-> {}, faults |-> NoFault]}

\* a manager is dropped: Drop::drop runs, and a panic in it ends the program
DroppedWith(d, after) ==
    /\ os' = d.os
    /\ calls' = IF d.called
                THEN Append(calls, Call("umount", "drop", os,
                                        Ret(d.os, d.cmds, d.umount)))
                ELSE calls
    /\ m' = <<>>
    /\ IF d.res = "panic"
       THEN pc' = "main" /\ result' = "panic" /\ ret' = ret
       ELSE after

Dropped(self, env, after) ==
    DroppedWith(EncryptedBoot_drop(self, os, env), after)

\* the `drop(m); Ok(())` that ends grub_install, run and move_sbctl
ExplicitDrop ==
    /\ pc = "drop(m)"
    /\ \E env \in DropEnv(m[1]) :
          Dropped(m[1], env, pc' = "scope exit" /\ ret' = "Ok" /\ result' = result)
    /\ UNCHANGED <<config, command>>

\* Cryptboot::umount, lines 91-92: from_config, then `m.umount()`
UmountReturned(r) ==
    /\ Returned("umount", r)
    /\ ret' = r.res

CryptbootUmount ==
    /\ pc = "Cryptboot::umount"
    /\ m' = <<from_config(config)>>
    /\ \E env \in TeardownEnv :
          UmountReturned(EncryptedBoot_umount(from_config(config), os, env))
    /\ pc' = "scope exit"
    /\ UNCHANGED <<config, command, result>>

\* the command's function returns: a manager still in scope is dropped, and
\* main ends with the value returned
ScopeExit ==
    /\ pc = "scope exit"
    /\ IF m = <<>>
       THEN /\ pc' = "main" /\ result' = ret
            /\ UNCHANGED <<os, calls, m, ret>>
       ELSE \E env \in DropEnv(m[1]) :
               Dropped(m[1], env, pc' = "main" /\ result' = ret /\ ret' = ret)
    /\ UNCHANGED <<config, command>>

Next ==
    \/ MainDispatch
    \/ CryptbootMountReset
    \/ CryptbootMountMount
    \/ ArmUmountOnDrop
    \/ GrubInstallWork
    \/ RunWork
    \/ MoveSbctlWork
    \/ ExplicitDrop
    \/ CryptbootUmount
    \/ ScopeExit

Spec == Init /\ [][Next]_vars

---------------------------------------------------------------------------
(* The primitives on their own: Device::is_valid (src/main.rs) and the     *)
(* functions of src/command.rs applied to every device, mountpoint and     *)
(* state of the file system of a small universe, once from each state of  *)
(* the tables.  `calls` holds the call, with its inputs.                   *)

\* one state of the two paths a call looks at: each is absent, cannot be
\* stat-ed, a block device or a directory
PathKinds == {"absent", "denied", "block", "dir"}
PrimPaths == {<<"dev", "sda2">>, <<"boot">>}
PrimEnv ==
    {[blk |-> {p \in PrimPaths : k[p] = "block"},
      dirs |-> {p \in PrimPaths : k[p] = "dir"},
      denied |-> {p \in PrimPaths : k[p] = "denied"}] :
        k \in [PrimPaths -> PathKinds]}
NoEnv == [blk |-> {}, dirs |-> {}, denied |-> {}]
PrimDevices ==
    {DevicePath(p) : p \in PrimPaths}
    \cup {DeviceMapper(BOOT_MAPPER_NAME), DevicePartUuid("0a1b")}

PrimCall(op, dev, mp, env, pre, r) ==
    [op |-> op, dev |-> dev, mp |-> mp, env |-> env, pre |-> pre,
     post |-> r.os, cmds |-> r.cmds, res |-> r.res]

PrimInit ==
    /\ config \in Configs
    /\ os \in {Stack(config, n) : n \in 0..3}
    /\ command = "none"
    /\ pc = "primitive"
    /\ m = <<>>
    /\ calls = <<>>
    /\ ret = "none"
    /\ result = "none"

PrimIsValid ==
    /\ pc = "primitive"
    /\ \E dev \in PrimDevices, env \in PrimEnv :
          calls' = <<PrimCall("Device::is_valid", dev, <<>>, env, os,
                              Ret(os, <<>>, is_valid(dev, os, env)))>>
    /\ pc' = "returned"
    /\ UNCHANGED <<os, config, command, m, ret, result>>

PrimReturned(op, dev, mp, env, r) ==
    /\ os' = r.os
    /\ calls' = <<PrimCall(op, dev, mp, env, os, r)>>
    /\ pc' = "returned"

PrimCryptsetupOpen ==
    /\ pc = "primitive"
    /\ \E dev \in PrimDevices, env \in PrimEnv, fault \in Fault :
          PrimReturned("command::cryptsetup_open", dev, <<>>, env,
                       cryptsetup_open(dev, BOOT_MAPPER_NAME, os, env, fault))
    /\ UNCHANGED <<config, command, m, ret, result>>

PrimMount ==
    /\ pc = "primitive"
    /\ \E dev \in PrimDevices, mp \in PrimPaths, env \in PrimEnv,
          fault \in Fault :
          PrimReturned("command::mount", dev, mp, env,
                       command_mount(dev, mp, os, env, fault))
    /\ UNCHANGED <<config, command, m, ret, result>>

PrimUmount ==
    /\ pc = "primitive"
    /\ \E mp \in PrimPaths, args \in {<<>>, <<(<<"-", "R">>)>>},
          fault \in Fault :
          PrimReturned("command::umount", DevicePath(<<>>), mp, NoEnv,
                       command_umount(mp, args, os, fault))
    /\ UNCHANGED <<config, command, m, ret, result>>

PrimCryptsetupClose ==
    /\ pc = "primitive"
    /\ \E silent \in BOOLEAN, fault \in Fault :
          PrimReturned("command::cryptsetup_close", DevicePath(<<>>), <<>>,
                       NoEnv,
                       cryptsetup_close(BOOT_MAPPER_NAME, silent, os, fault))
    /\ UNCHANGED <<config, command, m, ret, result>>

PrimNext ==
    \/ PrimIsValid
    \/ PrimCryptsetupOpen
    \/ PrimMount
    \/ PrimUmount
    \/ PrimCryptsetupClose

SpecPrim == PrimInit /\ [][PrimNext]_vars

---------------------------------------------------------------------------
(* Reading the calls of an invocation                                      *)

Target(c) == c.args[Len(c.args)]
IsUmountOf(c, mp) == c.prog = "umount" /\ Target(c) = mp
IsEfiUmount(c) == IsUmountOf(c, config.efi.mountpoint)
IsBootUmount(c) == IsUmountOf(c, config.mountpoint)
IsClose(c) == c.prog = "cryptsetup" /\ c.args[1] = <<"close">>
IsOpen(c) == c.prog = "cryptsetup" /\ c.args[1] = <<"open">>
IsMountOf(c, mp) == c.prog = "mount" /\ Target(c) = mp
IsBootMount(c) == IsMountOf(c, config.mountpoint)
IsEfiMount(c) == IsMountOf(c, config.efi.mountpoint)
IsTeardown(c) == c.prog = "umount" \/ IsClose(c)
UmountFlags(c) == Opts(SubSeq(c.args, 1, Len(c.args) - 1))

Cmds(k) == {k.cmds[i] : i \in 1..Len(k.cmds)}
Some(k, P(_)) == \E c \in Cmds(k) : P(c)
Succeeded(k, P(_)) == \E c \in Cmds(k) : P(c) /\ c.st = "success"
Failed(k, P(_)) == \E c \in Cmds(k) : P(c) /\ c.st # "success"

CallsOf(op) == {calls[i] : i \in {j \in 1..Len(calls) : calls[j].op = op}}
Indices(op) == {j \in 1..Len(calls) : calls[j].op = op}

MapperOpen(o) == BOOT_MAPPER_NAME \in o.mappers
BootMounted(o) == MountedAt(o, config.mountpoint)
EfiMounted(o) == MountedAt(o, config.efi.mountpoint)
Observable(o) == <<MapperOpen(o), BootMounted(o), EfiMounted(o)>>

---------------------------------------------------------------------------
(* C1: in every call of EncryptedBoot::umount in which the recursive       *)
(* unmount of the boot mountpoint fails, the call returns an error and     *)
(* issues no cryptsetup close, whatever the EFI unmount before it did.     *)
C1_BootUmountFailureStopsUmount ==
    \A k \in CallsOf("umount") :
        Failed(k, IsBootUmount) => k.res # "Ok" /\ ~Some(k, IsClose)

\* the EFI unmount succeeded, the boot unmount after it failed
C1_Witness ==
    \E k \in CallsOf("umount") :
        Succeeded(k, IsEfiUmount) /\ Failed(k, IsBootUmount)

(* C2: in every call of EncryptedBoot::umount in which the EFI unmount     *)
(* fails, the boot unmount is still issued, the mapper release is issued   *)
(* when the boot unmount succeeds, and the call returns Ok when both       *)
(* succeed.                                                                *)
C2_EfiFailureIsNotFatal ==
    \A k \in CallsOf("umount") :
        Failed(k, IsEfiUmount) =>
            /\ Some(k, IsBootUmount)
            /\ Succeeded(k, IsBootUmount) => Some(k, IsClose)
            /\ Succeeded(k, IsBootUmount) /\ Succeeded(k, IsClose) => k.res = "Ok"

\* EFI was already detached: its unmount failed, the other two steps worked
C2_Witness ==
    \E k \in CallsOf("umount") :
        /\ ~EfiMounted(k.pre)
        /\ Failed(k, IsEfiUmount)
        /\ Succeeded(k, IsBootUmount) /\ Succeeded(k, IsClose)
        /\ k.res = "Ok"
        /\ k.post = Unmounted

(* C3: every call of EncryptedBoot::reset returns normally, with the unit  *)
(* value and the program still running, for every combination of success   *)
(* and failure of its three commands, a command that cannot be started     *)
(* included.                                                               *)
C3_ResetNeverFails ==
    /\ \A k \in CallsOf("reset") : k.res = "()"
    /\ pc = "m.mount" =>
          /\ calls # <<>> /\ calls[Len(calls)].op = "reset"
          /\ result = "none" /\ ret = "none"

\* all three commands failed, one of them by not starting, and the program
\* is past reset
C3_Witness ==
    /\ pc = "m.mount"
    /\ \E k \in CallsOf("reset") :
          /\ Len(k.cmds) = 3
          /\ \A c \in Cmds(k) : c.st # "success"
          /\ \E c \in Cmds(k) : c.st = "nostart"
          /\ \E c \in Cmds(k) : c.st = "failure"

(* C4: every call of EncryptedBoot::mount stops at its first failing step  *)
(* and undoes nothing.  It issues no umount and no cryptsetup close; when  *)
(* the unlock fails no mount command is issued; when the unlock succeeds   *)
(* and the boot mount fails the EFI mount is not attempted and the mapper  *)
(* stays open; when the EFI mount fails the mapper stays open and the boot *)
(* filesystem stays mounted.                                               *)
C4_MountStopsAndKeeps ==
    \A k \in CallsOf("mount") :
        /\ ~Some(k, IsTeardown)
        /\ ~Succeeded(k, IsOpen) =>
              /\ k.res # "Ok"
              /\ \A c \in Cmds(k) : c.prog # "mount"
              /\ k.post = k.pre
        /\ Succeeded(k, IsOpen) /\ ~Succeeded(k, IsBootMount) =>
              /\ k.res # "Ok"
              /\ ~Some(k, IsEfiMount)
              /\ MapperOpen(k.post)
              /\ k.post.mounts = k.pre.mounts
        /\ Succeeded(k, IsBootMount) /\ k.res # "Ok" =>
              /\ MapperOpen(k.post)
              /\ BootMounted(k.post)
              /\ k.post.mounts \ k.pre.mounts =
                    {[dev |-> <<"dev", "mapper", BOOT_MAPPER_NAME>>,
                      mp |-> config.mountpoint]}

\* the unlock succeeded, the boot mount was issued and failed
C4_Witness ==
    \E k \in CallsOf("mount") :
        /\ Succeeded(k, IsOpen) /\ Failed(k, IsBootMount)
        /\ ~MapperOpen(k.pre) /\ MapperOpen(k.post)

NoFailureOnPresentTarget(k) ==
    /\ Failed(k, IsEfiUmount) =>
          \/ ~EfiMounted(k.pre)
          \/ /\ IsPrefix(config.mountpoint, config.efi.mountpoint)
             /\ Succeeded(k, IsBootUmount)
    /\ Failed(k, IsBootUmount) => ~BootMounted(k.pre)
    /\ Failed(k, IsClose) => ~MapperOpen(k.pre)

MountThenUmount ==
    {p \in Indices("mount") \X Indices("umount") :
        /\ p[1] < p[2]
        /\ calls[p[1]].res = "Ok"
        /\ \A l \in (p[1] + 1)..(p[2] - 1) :
              calls[l].op = "work" /\ calls[l].post = calls[l].pre}

MountSucceeded == \E k \in CallsOf("mount") : k.res = "Ok"
Ended == pc = "main" /\ result # "none"

(* C7: in grub_install, run and move_sbctl, once Mount has succeeded,      *)
(* Unmount is never invoked twice, and when the command has ended (with    *)
(* Ok, with the error of an intervening step, or after the early return    *)
(* of move_sbctl) it has been invoked exactly once, by the drop of the     *)
(* manager, before main has the result.                                    *)
C7_UnmountExactlyOnce ==
    command \in AutoRelease /\ MountSucceeded =>
        /\ Cardinality(Indices("umount")) <= 1
        /\ \A k \in CallsOf("umount") : k.via = "drop"
        /\ Ended => Cardinality(Indices("umount")) = 1
        /\ Cardinality(Indices("umount")) = 0 => result = "none"

\* grub-install failed after a successful Mount: the error reached main and
\* Unmount had run once
C7_Witness ==
    /\ command = "GrubInstall" /\ MountSucceeded /\ Ended
    /\ result = "Err(grub-install failed)"
    /\ Cardinality(Indices("umount")) = 1
    /\ calls[Len(calls)].op = "umount" /\ calls[Len(calls)].res = "Ok"

(* C8: a manager built by from_config without umount_on_drop issues no     *)
(* command when it goes out of scope.  The Mount command never runs        *)
(* Unmount and leaves the stack mounted when it returns Ok; the Umount     *)
(* command runs Unmount exactly once, by its explicit call.                *)
C8_NoReleaseWithoutTheFlag ==
    /\ command = "Mount" =>
          /\ Indices("umount") = {}
          /\ Ended /\ result = "Ok" => Observable(os) = <<TRUE, TRUE, TRUE>>
    /\ command = "Umount" =>
          /\ Cardinality(Indices("umount")) <= 1
          /\ \A k \in CallsOf("umount") : k.via = "call"
          /\ Ended => /\ Cardinality(Indices("umount")) = 1
                      /\ os = calls[Len(calls)].post
    /\ \A k \in CallsOf("mount") :
          k.res # "Ok" /\ Ended => calls[Len(calls)] = k /\ os = k.post

\* the Mount command has returned Ok and the stack is mounted
C8_Witness ==
    /\ command = "Mount" /\ Ended /\ result = "Ok"
    /\ m = <<>>
    /\ Observable(os) = <<TRUE, TRUE, TRUE>>

Teardowns == CallsOf("umount") \cup CallsOf("reset")

(* C9: every call of EncryptedBoot::umount and of EncryptedBoot::reset     *)
(* issues its commands in the order EFI unmount, boot unmount, mapper      *)
(* release; a mapper release is always preceded, in the same call, by the  *)
(* boot unmount.                                                           *)
C9_TeardownOrder ==
    \A k \in Teardowns :
        /\ Len(k.cmds) \in {2, 3}
        /\ IsEfiUmount(k.cmds[1])
        /\ IsBootUmount(k.cmds[2])
        /\ Len(k.cmds) = 3 => IsClose(k.cmds[3])
        /\ k.op = "reset" => Len(k.cmds) = 3
        /\ \A i \in 1..Len(k.cmds) :
              IsClose(k.cmds[i]) => \E j \in 1..(i - 1) : IsBootUmount(k.cmds[j])

\* an umount and a reset that each ran all three commands on a mounted stack
C9_Witness ==
    /\ \E k \in CallsOf("umount") :
          Len(k.cmds) = 3 /\ \A c \in Cmds(k) : c.st = "success"
    /\ \E k \in CallsOf("reset") :
          Len(k.cmds) = 3 /\ \A c \in Cmds(k) : c.st = "success"

\* the flags of umount(8) by their option letters
Force == "f"
Recursive == "R"
Quiet == "q"

---------------------------------------------------------------------------
\* what a call of a primitive saw of its device and of its mountpoint
StatOf(k) == metadata(full_path(k.dev), k.pre, k.env)
DeviceIsBlock(k) == StatOf(k).ok /\ StatOf(k).v = "block"
MountpointIsDir(k) ==
    k.mp \in k.env.dirs /\ k.mp \notin k.env.denied /\ k.mp \notin k.env.blk

(* C11: every call of cryptsetup_open on a device that is not valid at     *)
(* that call returns an error without running cryptsetup, and every call   *)
(* of command::mount on a device that is not valid, or on a mountpoint     *)
(* that is not an existing directory, returns an error without running     *)
(* mount; the mapper and mount tables are left as they were.               *)
C11_NoCommandOnInvalidInput ==
    /\ \A k \in CallsOf("command::cryptsetup_open") :
          ~DeviceIsBlock(k) =>
              /\ k.res = "Err(cryptsetup open error invalid device)"
              /\ k.cmds = <<>> /\ k.post = k.pre
    /\ \A k \in CallsOf("command::mount") :
          /\ ~DeviceIsBlock(k) =>
                /\ k.res = "Err(mount error invalid device)"
                /\ k.cmds = <<>> /\ k.post = k.pre
          /\ DeviceIsBlock(k) /\ ~MountpointIsDir(k) =>
                /\ k.res = "Err(mount invalid mountpoint)"
                /\ k.cmds = <<>> /\ k.post = k.pre
    /\ \A k \in CallsOf("command::cryptsetup_open")
                  \cup CallsOf("command::mount") :
          k.cmds # <<>> =>
              /\ DeviceIsBlock(k)
              /\ k.op = "command::mount" => MountpointIsDir(k)

\* mount was given the node of a mapper that an earlier call had opened and
\* a mountpoint that is no directory: it ran nothing
C11_Witness ==
    \E k \in CallsOf("command::mount") :
        /\ k.dev = DeviceMapper(BOOT_MAPPER_NAME)
        /\ DeviceIsBlock(k)
        /\ k.mp \notin k.env.dirs
        /\ k.res = "Err(mount invalid mountpoint)"
        /\ k.cmds = <<>>

\* the error a command that did not succeed gives its step
ErrorOf(c) ==
    IF c.st = "nostart" THEN "Err(io)"
    ELSE IF IsOpen(c) THEN "Err(cryptsetup open failed)"
    ELSE "Err(failed to mount)"
\* the errors of the check that stopped a step before its command
RefusalOf(step) ==
    IF step = 1 THEN {"Err(cryptsetup open error invalid device)"}
    ELSE {"Err(mount error invalid device)", "Err(mount invalid mountpoint)"}
\* the command each step of mount issues
IsStep(c, i) ==
    CASE i = 1 -> /\ IsOpen(c)
                  /\ c.args = <<(<<"open">>), config.device, <<BOOT_MAPPER_NAME>>>>
      [] i = 2 -> /\ c.prog = "mount"
                  /\ c.args = <<(<<"dev", "mapper", BOOT_MAPPER_NAME>>),
                                config.mountpoint>>
      [] i = 3 -> /\ c.prog = "mount"
                  /\ c.args = <<config.efi.device, config.efi.mountpoint>>
      [] OTHER -> FALSE

(* C12: every call of EncryptedBoot::mount issues its commands in the      *)
(* order unlock of the configured device, mount of the mapper device at    *)
(* the boot mountpoint, mount of the EFI device at the EFI mountpoint;     *)
(* each is issued only after the one before it succeeded; the call returns *)
(* Ok only when all three were issued and succeeded; and when it fails the *)
(* error is that of the step that failed: of its last command when that    *)
(* did not succeed, otherwise of the check that refused the next step.     *)
C12_MountSucceedsOnlyThroughAllSteps ==
    \A k \in CallsOf("mount") :
        LET n == Len(k.cmds)
        IN /\ n <= 3
           /\ \A i \in 1..n : IsStep(k.cmds[i], i)
           /\ \A i \in 2..n : k.cmds[i - 1].st = "success"
           /\ k.res = "Ok" <=> n = 3 /\ \A i \in 1..3 : k.cmds[i].st = "success"
           /\ k.res # "Ok" /\ n > 0 /\ k.cmds[n].st # "success" =>
                 k.res = ErrorOf(k.cmds[n])
           /\ k.res # "Ok" /\ (n = 0 \/ k.cmds[n].st = "success") =>
                 k.res \in RefusalOf(n + 1)

\* the unlock and the boot mount succeeded and the EFI mount exited non-zero:
\* mount returned the error of the EFI step
C12_Witness ==
    \E k \in CallsOf("mount") :
        /\ Len(k.cmds) = 3
        /\ k.cmds[1].st = "success" /\ k.cmds[2].st = "success"
        /\ k.cmds[3].st = "failure"
        /\ k.res = "Err(failed to mount)"

(* C13: Device::is_valid returns a boolean for every device and every      *)
(* state of the file system: false when the device's path does not exist,  *)
(* when it cannot be stat-ed (a permission error included) and when it is  *)
(* something other than a block device; true only when the stat succeeds   *)
(* and reports a block device.                                             *)
C13_IsValidOnlyForStatableBlockDevice ==
    \A k \in CallsOf("Device::is_valid") :
        LET p == full_path(k.dev)
            node == \E n \in k.pre.mappers : p = <<"dev", "mapper", n>>
        IN /\ k.res \in BOOLEAN
           /\ k.cmds = <<>> /\ k.post = k.pre
           /\ p \in k.env.denied => k.res = FALSE
           /\ p \notin k.env.blk \cup k.env.dirs /\ ~node => k.res = FALSE
           /\ p \in k.env.dirs \ k.env.blk /\ ~node => k.res = FALSE
           /\ k.res = TRUE <=> p \notin k.env.denied /\ (p \in k.env.blk \/ node)

\* is_valid was asked about a path that can be stat-ed and is a directory,
\* and returned false
C13_Witness ==
    /\ \E k \in CallsOf("Device::is_valid") :
          /\ full_path(k.dev) \in k.env.dirs
          /\ full_path(k.dev) \notin k.env.denied
          /\ k.res = FALSE
    /\ pc = "returned"

\* the mapper name a command names, and none (<<>>) when it names none
MapperNamed(c) ==
    IF IsOpen(c) THEN c.args[3]
    ELSE IF IsClose(c) THEN c.args[2]
    ELSE IF c.prog = "mount" /\ Len(c.args[1]) = 3
            /\ SubSeq(c.args[1], 1, 2) = <<"dev", "mapper">>
    THEN <<c.args[1][3]>>
    ELSE <<>>

(* C14: in every call of EncryptedBoot::mount, umount and reset the mapper *)
(* name given to the unlock, the name under which the decrypted device is  *)
(* looked up for the boot mount and the name given to the release are the  *)
(* one fixed identifier BOOT_MAPPER_NAME, which is also the name every     *)
(* manager carries; the boot mount is always of a mapper device.           *)
C14_OneMapperName ==
    /\ \A k \in CallsOf("mount") \cup CallsOf("umount") \cup CallsOf("reset") :
          /\ \A c \in Cmds(k) :
                MapperNamed(c) # <<>> => MapperNamed(c) = <<BOOT_MAPPER_NAME>>
          /\ \A c \in Cmds(k) :
                IsOpen(c) \/ IsClose(c) \/ IsBootMount(c) =>
                    MapperNamed(c) = <<BOOT_MAPPER_NAME>>
    /\ m # <<>> => m[1].name = BOOT_MAPPER_NAME

\* one invocation unlocked under the name, mounted the device of that name
\* and released the name again
C14_Witness ==
    /\ \E k \in CallsOf("mount") :
          /\ Succeeded(k, IsOpen) /\ Succeeded(k, IsBootMount)
          /\ BOOT_MAPPER_NAME \notin k.pre.mappers
          /\ BOOT_MAPPER_NAME \in k.post.mappers
    /\ \E k \in CallsOf("umount") :
          /\ Succeeded(k, IsClose)
          /\ BOOT_MAPPER_NAME \notin k.post.mappers

\* the command line of a command issued
Line(c) == <<c.prog, c.args>>

(* C15: no call of EncryptedBoot::mount, umount or reset runs the same     *)
(* external command twice, so none is retried after it failed; mount and   *)
(* umount issue at most three commands and reset issues exactly three.     *)
C15_NoRetry ==
    \A k \in CallsOf("mount") \cup CallsOf("umount") \cup CallsOf("reset") :
        /\ \A i, j \in 1..Len(k.cmds) :
              Line(k.cmds[i]) = Line(k.cmds[j]) => i = j
        /\ \A i \in 1..Len(k.cmds) :
              k.cmds[i].st # "success" =>
                  \A j \in (i + 1)..Len(k.cmds) :
                      Target(k.cmds[j]) # Target(k.cmds[i])
        /\ Len(k.cmds) <= 3
        /\ k.op = "reset" => Len(k.cmds) = 3

\* the boot unmount of an umount failed while the filesystem was mounted,
\* and was the last command of the call
C15_Witness ==
    \E k \in CallsOf("umount") :
        /\ BootMounted(k.pre)
        /\ Len(k.cmds) = 2
        /\ IsBootUmount(k.cmds[2]) /\ k.cmds[2].st = "failure"
        /\ BootMounted(k.post)

(* C16: EncryptedBoot::mount, umount and reset leave the configuration and *)
(* the mapper name of the manager, and the configuration of the program,   *)
(* as they were: a manager starts as from_config built it, with the flag   *)
(* off, and while it lives only the flag changes, only in umount_on_drop   *)
(* and only from false to true.                                            *)
C16_OnlyTheBuilderChangesTheManager ==
    [][/\ config' = config
       /\ m = <<>> /\ m' # <<>> =>
             m'[1] = [config |-> config, name |-> BOOT_MAPPER_NAME,
                      umount_on_drop |-> FALSE]
       /\ m # <<>> /\ m' # <<>> =>
             /\ m'[1].config = m[1].config
             /\ m'[1].name = m[1].name
             /\ m'[1].umount_on_drop # m[1].umount_on_drop =>
                   /\ pc = "umount_on_drop"
                   /\ ~m[1].umount_on_drop /\ m'[1].umount_on_drop]_vars

\* reset and a successful mount have been called on the manager and
\* umount_on_drop has turned its flag on: the rest of it is as it was built
C16_Witness ==
    /\ pc = "work"
    /\ m # <<>>
    /\ m[1] = [config |-> config, name |-> BOOT_MAPPER_NAME,
               umount_on_drop |-> TRUE]
    /\ \E k \in CallsOf("reset") : Len(k.cmds) = 3
    /\ \E k \in CallsOf("mount") : k.res = "Ok"

\* the commands that mount the stack before their work
Mounting == Commands \ {"Umount"}

(* C17: in every invocation of a command that mounts (Mount, GrubInstall,  *)
(* Run, MoveSbctl) EncryptedBoot::reset is called first and issues its     *)
(* three commands before EncryptedBoot::mount is called, mount starts from *)
(* the tables reset left, and mount is called whatever the three commands  *)
(* of reset did.                                                           *)
C17_ResetBeforeMount ==
    /\ \A i \in Indices("mount") :
          /\ i = 2
          /\ calls[1].op = "reset"
          /\ Len(calls[1].cmds) = 3
          /\ \A j \in 1..3 : IsTeardown(calls[1].cmds[j])
          /\ calls[2].pre = calls[1].post
          /\ \A c \in Cmds(calls[2]) : ~IsTeardown(c)
    /\ \A i \in Indices("reset") : i = 1 /\ command \in Mounting
    /\ command \in Mounting /\ calls # <<>> =>
          /\ calls[1].op = "reset"
          /\ pc # "m.mount" => Len(calls) >= 2 /\ calls[2].op = "mount"

\* none of the three commands of reset succeeded, and mount went on to
\* unlock the device
C17_Witness ==
    /\ Len(calls) >= 2
    /\ calls[1].op = "reset"
    /\ \A c \in Cmds(calls[1]) : c.st # "success"
    /\ calls[2].op = "mount"
    /\ Succeeded(calls[2], IsOpen)

\* the Unmount run by the drop of the manager
DropUmounts == {k \in CallsOf("umount") : k.via = "drop"}

(* C18: an auto-release command (grub_install, run, move_sbctl) whose      *)
(* Unmount at the end of the scope failed in the boot unmount or in the    *)
(* mapper release never returns success: the drop unwraps the error and    *)
(* the program ends at once, by the panic, with neither Ok nor the error   *)
(* of an earlier step.                                                     *)
C18_FailedReleaseIsNeverSuccess ==
    \A k \in DropUmounts :
        Failed(k, IsBootUmount) \/ Failed(k, IsClose) =>
            /\ command \in AutoRelease
            /\ k.res # "Ok"
            /\ pc = "main" /\ result = "panic"
            /\ calls[Len(calls)] = k /\ os = k.post

\* the work of the command had succeeded (`drop(m); Ok(())` was reached) and
\* the mapper release of the drop failed, leaving the mapper open
C18_Witness ==
    /\ command \in AutoRelease
    /\ \E w \in CallsOf("work") : w.res = "Ok"
    /\ \E k \in DropUmounts :
          /\ Succeeded(k, IsBootUmount) /\ Failed(k, IsClose)
          /\ MapperOpen(k.post)
    /\ result = "panic"

\* the calls of Cryptboot::mount in which EncryptedBoot::mount failed
FailedMounts == {i \in Indices("mount") : calls[i].res # "Ok"}

(* C19: the automatic release is on only in a manager whose mount has      *)
(* succeeded.  When EncryptedBoot::mount fails in Cryptboot::mount, in any *)
(* of Mount, GrubInstall, Run and MoveSbctl, nothing is called after it:   *)
(* no umount and no cryptsetup close is issued, the command ends with the  *)
(* error of mount, and what the steps that succeeded had set up (the       *)
(* mapper open, the boot filesystem mounted) is still in place.            *)
C19_ArmedOnlyAfterMount ==
    /\ m # <<>> /\ m[1].umount_on_drop => MountSucceeded /\ command \in AutoRelease
    /\ \A i \in FailedMounts :
          LET k == calls[i]
          IN /\ command \in Mounting
             /\ Len(calls) = i
             /\ Indices("umount") = {}
             /\ os = k.post
             /\ Succeeded(k, IsOpen) => MapperOpen(os)
             /\ Succeeded(k, IsBootMount) => BootMounted(os)
             /\ pc \in {"scope exit", "main"}
             /\ pc = "main" => result = k.res

\* reset had cleared the stack, then mount unlocked the device, mounted boot
\* and failed to mount EFI: the auto-release command has ended with that
\* error and the mapper is open with boot mounted
C19_Witness ==
    /\ command \in AutoRelease /\ Ended
    /\ \E i \in FailedMounts :
          /\ calls[i].pre = Unmounted
          /\ Succeeded(calls[i], IsOpen) /\ Succeeded(calls[i], IsBootMount)
          /\ Failed(calls[i], IsEfiMount)
          /\ result = calls[i].res
    /\ MapperOpen(os) /\ BootMounted(os) /\ ~EfiMounted(os)

=============================================================================
